---- MODULE Spec2Model ----
(***************************************************************************)
(* Model of the recruitment back end of project_1.py: the candidate search *)
(* (CandidatesSearch), the project shortlist (CMSManager), the statistics  *)
(* (Dashboard) and the add/edit classes (Clients, Projects, Candidates)    *)
(* over the tables p1_clients, p1_projects, p1_candidates and p1_cms       *)
(* reached through DatabaseManager.                                        *)
(*                                                                         *)
(* Python values are tagged records so that str(), truthiness and the      *)
(* "is None" tests can be computed; a Python string is the sequence of its *)
(* characters.  Table rows are functions over the 0-based column index     *)
(* the code uses (candidate[1], candidate[26], data[3], ...).              *)
(***************************************************************************)
EXTENDS Integers, Sequences, FiniteSets, TLC

VARIABLES candidates,   \* table p1_candidates: sequence of rows
          cms,          \* table p1_cms: sequence of rows
          today_year,   \* datetime.date.today().year
          cs,           \* the CandidatesSearch object
          mgr,          \* the CMSManager objects
          ret,          \* what the last call returned (or raised)
          clients,      \* table p1_clients: sequence of rows
          projects,     \* table p1_projects: sequence of rows
          editors,      \* the Clients, Projects and Candidates objects
          dash,         \* the Dashboard object
          writes,       \* the save_data calls issued, with their outcome
          sync          \* the add_candidates_to_project calls under way

vars == <<candidates, cms, today_year, cs, mgr, ret,
          clients, projects, editors, dash, writes, sync>>

(***************************************************************************)
(* Bounds                                                                  *)
(***************************************************************************)
MaxCandidates == 2
MaxCms == 2
MaxManagers == 1

(***************************************************************************)
(* Python values                                                           *)
(***************************************************************************)
None == [t |-> "none", s |-> <<>>, n |-> 0]
S(chars) == [t |-> "str", s |-> chars, n |-> 0]
I(k) == [t |-> "int", s |-> <<>>, n |-> k]

EmptyStr == S(<<>>)

\* bool(v)
Truthy(v) ==
    CASE v.t = "none" -> FALSE
      [] v.t = "str" -> v.s # <<>>
      [] OTHER -> v.n # 0

Digits == <<"0", "1", "2", "3", "4", "5", "6", "7", "8", "9">>

RECURSIVE NatStr(_)
NatStr(k) == IF k < 10 THEN <<Digits[k + 1]>>
             ELSE NatStr(k \div 10) \o <<Digits[(k % 10) + 1]>>

\* str(v), as a character sequence
PyStr(v) ==
    CASE v.t = "none" -> <<"N", "o", "n", "e">>
      [] v.t = "str" -> v.s
      [] v.t = "bool" -> IF v.n = 1 THEN <<"T", "r", "u", "e">>
                         ELSE <<"F", "a", "l", "s", "e">>
      [] OTHER -> IF v.n < 0 THEN <<"-">> \o NatStr(0 - v.n) ELSE NatStr(v.n)

DigitVal(c) == (CHOOSE i \in 1..10 : Digits[i] = c) - 1

RECURSIVE ParseNat(_)
ParseNat(chars) ==
    IF chars = <<>> THEN 0
    ELSE 10 * ParseNat(SubSeq(chars, 1, Len(chars) - 1)) + DigitVal(chars[Len(chars)])

\* int(v) of a string of decimal digits
PyInt(v) == ParseNat(v.s)

UpperCase == <<"A", "B", "C", "D", "E", "F", "G", "H", "I", "J", "K", "L", "M",
               "N", "O", "P", "Q", "R", "S", "T", "U", "V", "W", "X", "Y", "Z">>
LowerCase == <<"a", "b", "c", "d", "e", "f", "g", "h", "i", "j", "k", "l", "m",
               "n", "o", "p", "q", "r", "s", "t", "u", "v", "w", "x", "y", "z">>

LowerChar(c) ==
    IF \E i \in 1..26 : UpperCase[i] = c
    THEN LowerCase[CHOOSE i \in 1..26 : UpperCase[i] = c]
    ELSE c

\* str.lower()
Lower(chars) == [i \in 1..Len(chars) |-> LowerChar(chars[i])]

\* the Python test  needle in hay  on strings
IsSubstring(needle, hay) ==
    \E i \in 0..(Len(hay) - Len(needle)) :
        SubSeq(hay, i + 1, i + Len(needle)) = needle

\* what a call gives back: a value, or the exception it raised
Returned(v) == [err |-> "none", val |-> v]
Raised(e) == [err |-> e, val |-> <<>>]

(***************************************************************************)
(* CandidatesSearch                                                        *)
(***************************************************************************)
AllIds(data) == [k \in 1..Len(data) |-> data[k][1]]

ValidGenders == {S(<<"M">>), S(<<"F">>), S(<<"A", "l", "l">>)}

\* gender() without the filter on column 3
gender_unfiltered(data, g) ==
    IF g \notin ValidGenders THEN Raised("ValueError")
    ELSE Returned(AllIds(data))

\* gender() taking a value it does not know as "All"
gender_lenient(data, g) ==
    IF g \in ValidGenders /\ g # S(<<"A", "l", "l">>)
    THEN Returned(AllIds(SelectSeq(data, LAMBDA c : c[3] = g)))
    ELSE Returned(AllIds(data))

gender(data, g) ==
    IF g \notin ValidGenders THEN Raised("ValueError")
    ELSE IF g = S(<<"A", "l", "l">>) THEN Returned(AllIds(data))
    ELSE Returned(AllIds(SelectSeq(data, LAMBDA c : c[3] = g)))

\* age() joining the two bounds with "or"
age_or(data, younger_then, older_then, current_year) ==
    LET yGiven == younger_then # EmptyStr
        oGiven == older_then # EmptyStr
        y == IF yGiven THEN PyInt(younger_then) ELSE 0
        o == IF oGiven THEN PyInt(older_then) ELSE 0
    IN  IF yGiven /\ oGiven
        THEN AllIds(SelectSeq(data, LAMBDA c : current_year - c[4].n < y
                                       \/ current_year - c[4].n > o))
        ELSE IF yGiven
        THEN AllIds(SelectSeq(data, LAMBDA c : current_year - c[4].n < y))
        ELSE IF oGiven
        THEN AllIds(SelectSeq(data, LAMBDA c : current_year - c[4].n > o))
        ELSE AllIds(data)

\* age() testing the parsed bounds for truth, so that 0 counts as omitted
age_truthy(data, younger_then, older_then, current_year) ==
    LET y == IF younger_then # EmptyStr THEN PyInt(younger_then) ELSE 0
        o == IF older_then # EmptyStr THEN PyInt(older_then) ELSE 0
    IN  IF y # 0 /\ o # 0
        THEN AllIds(SelectSeq(data, LAMBDA c : current_year - c[4].n < y
                                       /\ current_year - c[4].n > o))
        ELSE IF y # 0
        THEN AllIds(SelectSeq(data, LAMBDA c : current_year - c[4].n < y))
        ELSE IF o # 0
        THEN AllIds(SelectSeq(data, LAMBDA c : current_year - c[4].n > o))
        ELSE AllIds(data)

age(data, younger_then, older_then, current_year) ==
    LET yGiven == younger_then # EmptyStr
        oGiven == older_then # EmptyStr
        y == IF yGiven THEN PyInt(younger_then) ELSE 0
        o == IF oGiven THEN PyInt(older_then) ELSE 0
    IN  IF yGiven /\ oGiven
        THEN AllIds(SelectSeq(data, LAMBDA c : current_year - c[4].n < y
                                       /\ current_year - c[4].n > o))
        ELSE IF yGiven
        THEN AllIds(SelectSeq(data, LAMBDA c : current_year - c[4].n < y))
        ELSE IF oGiven
        THEN AllIds(SelectSeq(data, LAMBDA c : current_year - c[4].n > o))
        ELSE AllIds(data)

\* condition_search() comparing whole strings whatever full_str says
condition_search_exact(data, input, full_str, data_index) ==
    LET input_str == Lower(PyStr(input))
    IN  AllIds(SelectSeq(data, LAMBDA d : Lower(PyStr(d[data_index])) = input_str))

condition_search(data, input, full_str, data_index) ==
    LET input_str == Lower(PyStr(input))
    IN  IF full_str
        THEN AllIds(SelectSeq(data, LAMBDA d : Lower(PyStr(d[data_index])) = input_str))
        ELSE AllIds(SelectSeq(data, LAMBDA d : IsSubstring(input_str, Lower(PyStr(d[data_index])))))

\* the column each of input_conditions[3..11] is searched in
SearchColumns == <<5, 11, 16, 12, 13, 14, 17, 18, 20>>

\* The list literal is evaluated left to right: input_conditions[0] first
\* (IndexError on an empty vector), then gender() (ValueError), then the
\* remaining subscripts (IndexError when the vector is shorter than 12).
merge_search_results(data, conds, current_year) ==
    IF Len(conds) < 1 THEN Raised("IndexError")
    ELSE LET g == gender(data, conds[1])
         IN  IF g.err # "none" THEN g
             ELSE IF Len(conds) < 12 THEN Raised("IndexError")
             ELSE Returned(
                    <<g.val, age(data, conds[2], conds[3], current_year)>>
                    \o [k \in 1..9 |->
                          condition_search(data, conds[k + 3], FALSE, SearchColumns[k])])

Elems(list) == {list[k] : k \in 1..Len(list)}

RECURSIVE IntersectFrom(_, _, _)
IntersectFrom(full_list, i, result) ==
    IF i > Len(full_list) THEN result
    ELSE IntersectFrom(full_list, i + 1, result \cap Elems(full_list[i]))

RECURSIVE UnionFrom(_, _, _)
UnionFrom(full_list, i, result) ==
    IF i > Len(full_list) THEN result
    ELSE UnionFrom(full_list, i + 1, result \cup Elems(full_list[i]))

\* find_common_elements() with "|" for "&"
find_common_elements_union(data, conds, current_year) ==
    LET full_list == merge_search_results(data, conds, current_year)
    IN  IF full_list.err # "none" THEN full_list
        ELSE Returned(UnionFrom(full_list.val, 2, Elems(full_list.val[1])))

\* the common identifiers, as a set (the order of list(set) is not used)
find_common_elements(data, conds, current_year) ==
    LET full_list == merge_search_results(data, conds, current_year)
    IN  IF full_list.err # "none" THEN full_list
        ELSE Returned(IntersectFrom(full_list.val, 2, Elems(full_list.val[1])))

search_results(data, conds, current_year) ==
    LET candidates_id_list == find_common_elements(data, conds, current_year)
    IN  IF candidates_id_list.err # "none" THEN candidates_id_list
        ELSE LET hit == SelectSeq(data, LAMBDA c : c[1] \in candidates_id_list.val)
             IN  Returned([k \in 1..Len(hit) |-> <<hit[k][1], hit[k][2]>>])

(***************************************************************************)
(* Table rows                                                              *)
(***************************************************************************)
\* p1_candidates, in the column order of the INSERT of add_candidate after
\* the leading row id: 1 candidate_id, 2 name_surname, 3 gender,
\* 4 birth_year, 5 city, 11 major, 12 business_skills, 13 licences,
\* 14 languages, 16 work_experience, 17 optimal_position, 18 talent_score,
\* 19 project_ID, 20 blacklisted, 26 c_description, 27 pv_description.
CandidateRow(candidate_id, name_surname, g, birth_year, rest) ==
    [i \in 0..27 |->
        CASE i = 0 -> I(0)
          [] i = 1 -> candidate_id
          [] i = 2 -> name_surname
          [] i = 3 -> g
          [] i = 4 -> birth_year
          [] OTHER -> rest[i]]

\* a table gives its rows their row id (column 0)
Stored(rows) == [k \in 1..Len(rows) |-> [rows[k] EXCEPT ![0] = I(k)]]

Id1 == S(<<"0", "0", "0", "1">>)
Id2 == S(<<"0", "0", "0", "2">>)
Ana == S(<<"A", "n", "a">>)
Bo == S(<<"B", "o">>)
Oslo == S(<<"O", "s", "l", "o">>)
StrTrue == S(<<"T", "r", "u", "e">>)
StrFalse == S(<<"F", "a", "l", "s", "e">>)
GenderM == S(<<"M">>)
GenderF == S(<<"F">>)
GenderAll == S(<<"A", "l", "l">>)

\* a dossier with every searched column filled in
FullDossier ==
    [i \in 5..27 |->
        CASE i = 5 -> Oslo
          [] i = 11 -> S(<<"L", "a", "w">>)
          [] i = 12 -> S(<<"x", "l">>)
          [] i = 13 -> S(<<"B">>)
          [] i = 14 -> S(<<"e", "n">>)
          [] i = 16 -> S(<<"F", "I", "N">>)
          [] i = 17 -> S(<<"H", "R">>)
          [] i = 18 -> I(7)
          [] i = 19 -> Id1
          [] i = 20 -> StrFalse
          [] OTHER -> EmptyStr]

\* a dossier with NULL columns
SparseDossier ==
    [i \in 5..27 |->
        CASE i = 5 -> Oslo
          [] i = 11 -> None
          [] i = 12 -> EmptyStr
          [] i = 13 -> None
          [] i = 14 -> S(<<"E", "N">>)
          [] i = 16 -> S(<<"H", "R", "-", "E", ":", "F", "I", "N">>)
          [] i = 17 -> None
          [] i = 18 -> None
          [] i = 19 -> Id1
          [] i = 20 -> StrTrue
          [] OTHER -> None]

CurrentYears == {2026}

\* the two people of the tables: name, year of birth, dossier
People == {<<Ana, I(1990), FullDossier>>, <<Bo, I(1985), SparseDossier>>}

SearchRows ==
    {CandidateRow(id, p[1], g, p[2], p[3]) :
        id \in {Id1, Id2}, p \in People, g \in {GenderM, GenderF}}

TablesOf(rows, maxLen) ==
    UNION {{Stored(t) : t \in [1..n -> rows]} : n \in 0..maxLen}

(***************************************************************************)
(* Search conditions                                                       *)
(***************************************************************************)
DefaultConds == <<GenderAll>> \o [k \in 1..11 |-> EmptyStr]

\* the values tried in each slot besides its default
SlotValues ==
    <<{GenderM, GenderF, EmptyStr},
      {S(<<"0">>), S(<<"4", "1">>)},
      {S(<<"0">>), S(<<"3", "6">>)},
      {S(<<"O", "S">>)},
      {S(<<"l", "A">>), S(<<"N">>)},
      {},
      {}, {}, {}, {},
      {S(<<"7">>)},
      {S(<<"t", "r", "u", "e">>)}>>

SlotValueSet == UNION {SlotValues[k] : k \in 1..12}

WellFormed(c) == \A i \in 1..12 : c[i] = DefaultConds[i] \/ c[i] \in SlotValues[i]

\* the vectors obtained by setting one slot of a vector of C
Change(C) == {x \in {[c EXCEPT ![i] = v] : c \in C, i \in 1..12, v \in SlotValueSet} :
                 WellFormed(x)}

\* the number of slots of a vector that are not at their default
Differs(c) == Cardinality({i \in 1..12 : c[i] # DefaultConds[i]})

\* the spec's scenario vector: "F" followed by ten empty strings
ScenarioConds == <<GenderF>> \o [k \in 1..10 |-> EmptyStr]

\* the vectors with at most two slots set, the scenario's and the empty one
SearchConds == Change(Change({DefaultConds})) \cup {ScenarioConds, <<>>}

NoSearch == [built |-> FALSE, candidate_data |-> <<>>, input_conditions |-> <<>>]
NoManager == [built |-> FALSE, project_id |-> None, cms_data |-> <<>>, candidate_data |-> <<>>]
NoRet == [op |-> "none", err |-> "none", val |-> <<>>, args |-> <<>>]

Call(op, args, r) == [op |-> op, err |-> r.err, val |-> r.val, args |-> args]

\* the objects of the other classes before they are constructed
NoEditor == [built |-> FALSE, data |-> <<>>]
NoEditors == [c \in {"Clients", "Projects", "Candidates"} |-> NoEditor]
NoDashboard == [built |-> FALSE, client_data |-> <<>>, projects_data |-> <<>>,
                candidates_data |-> <<>>]
NoSync == [running |-> FALSE, candidates_not_added |-> <<>>, next |-> 0]

(***************************************************************************)
(* The search, as a program: build the object, then call a method          *)
(***************************************************************************)
InitSearch ==
    /\ candidates \in TablesOf(SearchRows, MaxCandidates)
    /\ cms = <<>>
    /\ today_year \in CurrentYears
    /\ cs = NoSearch
    /\ mgr = [m \in 1..MaxManagers |-> NoManager]
    /\ ret = NoRet
    /\ clients = <<>>
    /\ projects = <<>>
    /\ editors = NoEditors
    /\ dash = NoDashboard
    /\ writes = <<>>
    /\ sync = [m \in 1..MaxManagers |-> NoSync]

\* CandidatesSearch(input_conditions): reads the candidate table
NewSearch(input_conditions) ==
    /\ ~cs.built
    /\ cs' = [built |-> TRUE, candidate_data |-> candidates,
              input_conditions |-> input_conditions]
    /\ UNCHANGED <<candidates, cms, today_year, mgr, ret,
                 clients, projects, editors, dash, writes, sync>>

Call_search_results ==
    /\ cs.built
    /\ ret = NoRet
    /\ ret' = Call("search_results", cs.input_conditions,
                   search_results(cs.candidate_data, cs.input_conditions, today_year))
    /\ UNCHANGED <<candidates, cms, today_year, cs, mgr,
                 clients, projects, editors, dash, writes, sync>>

NextSearch ==
    \/ \E c \in SearchConds : NewSearch(c)
    \/ Call_search_results

SpecSearch == InitSearch /\ [][NextSearch]_vars

\* the arguments the single predicates are called with
GenderArgs == ValidGenders \cup {EmptyStr, S(<<"m">>)}
AgeArgs == {EmptyStr, S(<<"0">>), S(<<"3", "6">>), S(<<"4", "1">>)}
Criteria == {EmptyStr, S(<<"O", "S">>), S(<<"l", "A">>), S(<<"N">>), S(<<"n", "o", "n", "e">>),
             S(<<"7">>), S(<<"f", "i", "n">>), S(<<"t", "r", "u", "e">>), I(7), None}

Call_gender(g) ==
    /\ cs.built
    /\ ret = NoRet
    /\ ret' = Call("gender", <<g>>, gender(cs.candidate_data, g))
    /\ UNCHANGED <<candidates, cms, today_year, cs, mgr,
                 clients, projects, editors, dash, writes, sync>>

Call_age(younger_then, older_then) ==
    /\ cs.built
    /\ ret = NoRet
    /\ ret' = Call("age", <<younger_then, older_then>>,
                   Returned(age(cs.candidate_data, younger_then, older_then, today_year)))
    /\ UNCHANGED <<candidates, cms, today_year, cs, mgr,
                 clients, projects, editors, dash, writes, sync>>

Call_condition_search(input, full_str, data_index) ==
    /\ cs.built
    /\ ret = NoRet
    /\ ret' = Call("condition_search", <<input, full_str, data_index>>,
                   Returned(condition_search(cs.candidate_data, input, full_str, data_index)))
    /\ UNCHANGED <<candidates, cms, today_year, cs, mgr,
                 clients, projects, editors, dash, writes, sync>>

\* the vectors the object is built with when its predicates are called directly
PredicateConds == {DefaultConds, [DefaultConds EXCEPT ![1] = EmptyStr]}

NextPredicates ==
    \/ \E c \in PredicateConds : NewSearch(c)
    \/ Call_search_results
    \/ \E g \in GenderArgs : Call_gender(g)
    \/ \E y \in AgeArgs, o \in AgeArgs : Call_age(y, o)
    \/ \E input \in Criteria, full_str \in BOOLEAN, k \in 1..9 :
          Call_condition_search(input, full_str, SearchColumns[k])

SpecPredicates == InitSearch /\ [][NextPredicates]_vars

(***************************************************************************)
(* Properties of the search                                                *)
(***************************************************************************)
\* the n-th smallest element of a set of positions
NthIn(K, n) == CHOOSE k \in K : Cardinality({j \in K : j < k}) = n - 1

\* the identifiers of the rows at the positions K, in table order
IdsAt(data, K) == [n \in 1..Cardinality(K) |-> data[NthIn(K, n)][1]]

\* the [identifier, name] pairs of the rows at the positions K, in table order
PairsAt(data, K) == [n \in 1..Cardinality(K) |-> <<data[NthIn(K, n)][1], data[NthIn(K, n)][2]>>]

Positions(data) == 1..Len(data)

\* the identifiers of a list of [identifier, name] pairs
PairIds(pairs) == {pairs[k][1] : k \in 1..Len(pairs)}

\* a vector of 12 conditions with a gender the search accepts
ValidConds(c) == Len(c) = 12 /\ c[1] \in {GenderM, GenderF, GenderAll}

Searched == ret.op = "search_results"

InEveryPartial(id, partials) ==
    \A k \in 1..Len(partials) : \E j \in 1..Len(partials[k]) : partials[k][j] = id

\* C1: search_results returns exactly the [identifier, name] pairs of the
\* snapshot rows whose identifier is in every partial result of
\* merge_search_results, in snapshot order.
C1_SearchIsIntersection ==
    (Searched /\ ValidConds(cs.input_conditions)) =>
        LET partials == merge_search_results(cs.candidate_data, cs.input_conditions,
                                             today_year).val
            K == {k \in Positions(cs.candidate_data) :
                     InEveryPartial(cs.candidate_data[k][1], partials)}
        IN  /\ ret.err = "none"
            /\ ret.val = PairsAt(cs.candidate_data, K)

\* a search with two conditions set that keeps the second of two rows only
C1_Witness ==
    /\ Searched
    /\ ValidConds(cs.input_conditions)
    /\ Differs(cs.input_conditions) = 2
    /\ Len(cs.candidate_data) = 2
    /\ cs.candidate_data[1][1] # cs.candidate_data[2][1]
    /\ ret.val = <<(<<cs.candidate_data[2][1], cs.candidate_data[2][2]>>)>>

AllEmpty == [k \in 1..12 |-> EmptyStr]

\* C2 as stated: a search whose 12 conditions are each empty or at their
\* default does not fail and returns every candidate of the snapshot.
C2_EmptyOrDefaultReturnsAll ==
    (Searched /\ cs.input_conditions \in {AllEmpty, DefaultConds}) =>
        /\ ret.err = "none"
        /\ [k \in 1..Len(ret.val) |-> ret.val[k][1]] = AllIds(cs.candidate_data)

\* C2 amended: with the gender at its default "All" and the other 11
\* conditions empty the search returns every candidate of the snapshot; with
\* an empty gender it raises ValueError.
C2_DefaultReturnsAll ==
    /\ (Searched /\ cs.input_conditions = DefaultConds) =>
          /\ ret.err = "none"
          /\ ret.val = PairsAt(cs.candidate_data, Positions(cs.candidate_data))
    /\ (Searched /\ cs.input_conditions = AllEmpty) =>
          /\ ret.err = "ValueError"
          /\ ret.val = <<>>

C2_Witness ==
    /\ Searched
    /\ cs.input_conditions = DefaultConds
    /\ Len(cs.candidate_data) = 2
    /\ cs.candidate_data[1][3] # cs.candidate_data[2][3]
    /\ cs.candidate_data[1][11] # cs.candidate_data[2][11]
    /\ Len(ret.val) = 2

ScenarioSnapshot ==
    Stored(<<CandidateRow(Id1, Ana, GenderF, I(1990), FullDossier),
             CandidateRow(Id2, Bo, GenderM, I(1985), SparseDossier)>>)

\* C3 as stated: on the scenario snapshot the vector "F" followed by ten
\* empty strings returns [["0001", "Ana"]].
C3_ScenarioAsListed ==
    (Searched /\ cs.candidate_data = ScenarioSnapshot
              /\ cs.input_conditions = ScenarioConds) =>
        /\ ret.err = "none"
        /\ ret.val = <<(<<Id1, Ana>>)>>

\* C3 amended: on the scenario snapshot the 12-element vector "F" followed by
\* eleven empty strings returns [["0001", "Ana"]]; the 11-element vector
\* raises IndexError.
C3_ScenarioTwelve ==
    /\ (Searched /\ cs.candidate_data = ScenarioSnapshot
                 /\ cs.input_conditions = [AllEmpty EXCEPT ![1] = GenderF]) =>
          /\ ret.err = "none"
          /\ ret.val = <<(<<Id1, Ana>>)>>
    /\ (Searched /\ cs.candidate_data = ScenarioSnapshot
                 /\ cs.input_conditions = ScenarioConds) =>
          /\ ret.err = "IndexError"
          /\ ret.val = <<>>

C3_Witness ==
    /\ Searched
    /\ cs.candidate_data = ScenarioSnapshot
    /\ cs.input_conditions = [AllEmpty EXCEPT ![1] = GenderF]
    /\ ret.val = <<(<<Id1, Ana>>)>>

\* C7: gender() returns for "M" or "F" exactly the identifiers of the rows
\* whose gender column equals it and for "All" every identifier; any other
\* value, the empty string included, raises ValueError, which reaches the
\* caller of search_results with no result.
C7_GenderFilter ==
    /\ ret.op = "gender" =>
          LET g == ret.args[1]
              data == cs.candidate_data
          IN  IF g \in {GenderM, GenderF}
              THEN /\ ret.err = "none"
                   /\ ret.val = IdsAt(data, {k \in Positions(data) : data[k][3] = g})
              ELSE IF g = GenderAll
              THEN /\ ret.err = "none"
                   /\ ret.val = IdsAt(data, Positions(data))
              ELSE /\ ret.err = "ValueError"
                   /\ ret.val = <<>>
    /\ (Searched /\ cs.input_conditions = AllEmpty) =>
          /\ ret.err = "ValueError"
          /\ ret.val = <<>>

\* gender("") raised on a snapshot of two candidates
C7_Witness ==
    /\ ret.op = "gender"
    /\ ret.args[1] = EmptyStr
    /\ Len(cs.candidate_data) = 2
    /\ ret.err = "ValueError"

\* the number an age bound stands for
BoundOf(a) ==
    CASE a = S(<<"0">>) -> 0
      [] a = S(<<"3", "6">>) -> 36
      [] a = S(<<"4", "1">>) -> 41

AgeAt(data, k) == today_year - data[k][4].n

HoldsCriterion(field, input) ==
    LET criterion == Lower(PyStr(input))
    IN  \/ criterion = <<>>
        \/ /\ field # None
           /\ IsSubstring(criterion, Lower(PyStr(field)))

\* C9: condition_search(.., full_str=False, ..) returns exactly the rows whose
\* column holds the criterion; an empty criterion matches every row and a
\* non-empty one only rows whose stored value contains it.
C9_SubstringMatch ==
    (ret.op = "condition_search" /\ ret.args[2] = FALSE /\ ret.args[1].t = "str") =>
        LET data == cs.candidate_data
            K == {k \in Positions(data) : HoldsCriterion(data[k][ret.args[3]], ret.args[1])}
        IN  ret.val = IdsAt(data, K)

\* C10: a search with one more condition set (the others unchanged) returns
\* identifiers that are among those returned with that condition at its
\* default.
C10_MonotonicNarrowing ==
    (Searched /\ ValidConds(cs.input_conditions) /\ ret.err = "none") =>
        \A i \in 1..12 :
            cs.input_conditions[i] # DefaultConds[i] =>
                LET before == search_results(
                                  cs.candidate_data,
                                  [cs.input_conditions EXCEPT ![i] = DefaultConds[i]],
                                  today_year)
                IN  /\ before.err = "none"
                    /\ PairIds(ret.val) \subseteq PairIds(before.val)

\* two conditions are set and the search returns one row, where one of them
\* alone returns two
C10_Witness ==
    /\ Searched
    /\ ValidConds(cs.input_conditions)
    /\ Differs(cs.input_conditions) = 2
    /\ Len(ret.val) = 1
    /\ \E i \in 1..12 :
          /\ cs.input_conditions[i] # DefaultConds[i]
          /\ Len(search_results(cs.candidate_data,
                                [cs.input_conditions EXCEPT ![i] = DefaultConds[i]],
                                today_year).val) = 2

(***************************************************************************)
(* CMSManager: the shortlist of a project                                  *)
(***************************************************************************)
\* p1_cms: 0 row id, 1 project_id, 2 candidate_id, 3 note, 4 score,
\* 5 status_accepted, 6 status_reserve, 7 status_rejected
CmsRow(project_id, candidate_id) ==
    [i \in 0..7 |->
        CASE i = 0 -> I(0)
          [] i = 1 -> project_id
          [] i = 2 -> candidate_id
          [] OTHER -> None]

NoteGlyph == S(<<"◈">>)
InterviewGlyph == S(<<"◇">>)

\* save_data() on a table that keeps one row per (column 1, column 2) pair: a
\* second INSERT of a pair stores nothing
save_data_insert_unique(table, row, ok) ==
    IF ok /\ ~\E k \in 1..Len(table) : table[k][1] = row[1] /\ table[k][2] = row[2]
    THEN Append(table, [row EXCEPT ![0] = I(Len(table) + 1)])
    ELSE table

\* DatabaseManager.save_data with an INSERT: the row is stored, or the
\* exception is printed and swallowed and the table is left as it was
save_data_insert(table, row, ok) ==
    IF ok THEN Append(table, [row EXCEPT ![0] = I(Len(table) + 1)]) ELSE table

\* what save_data hands back to its caller: "return None" after the commit
\* and "return None" in the except branch
save_data(ok) == IF ok THEN None ELSE None

\* one save_data call as it is logged: the table of the statement, its
\* parameters, whether the statement was committed, and the value returned
Write(table_name, data, ok) ==
    [table |-> table_name, data |-> data, ok |-> ok, result |-> save_data(ok)]

\* the save_data calls of the loop of add_candidates_to_project
InsertWrites(project_id, ids, oks) ==
    [k \in 1..Len(ids) |-> Write("p1_cms", <<project_id, ids[k]>>, oks[k])]

\* project_candidates() without the test of the blacklisted flag
project_candidates_any_flag(m) ==
    AllIds(SelectSeq(m.candidate_data, LAMBDA c : c[19] = m.project_id))

\* candidates of the project that are not blacklisted
project_candidates(m) ==
    AllIds(SelectSeq(m.candidate_data,
                     LAMBDA c : c[19] = m.project_id /\ c[20] = StrFalse))

\* those of them with no (project_id, candidate) entry in the manager's snapshot
candidates_not_added(m) ==
    SelectSeq(project_candidates(m),
              LAMBDA c : ~\E k \in 1..Len(m.cms_data) :
                            m.cms_data[k][1] = m.project_id /\ m.cms_data[k][2] = c)

RECURSIVE InsertAll(_, _, _, _)
InsertAll(table, project_id, ids, oks) ==
    IF ids = <<>> THEN table
    ELSE InsertAll(save_data_insert(table, CmsRow(project_id, Head(ids)), Head(oks)),
                   project_id, Tail(ids), Tail(oks))

\* project_row() reading the marker from column 27
project_row_pv(candidate_data, candidate) ==
    LET l0 == [k \in 1..6 |-> candidate_data[k + 1]]
        l1 == <<l0[1], candidate[2]>> \o SubSeq(l0, 2, 6)
        l2 == Append(l1, IF Truthy(candidate[27]) THEN InterviewGlyph ELSE EmptyStr)
        l3 == Append(l2, l2[3])
    IN  SubSeq(l3, 1, 2) \o SubSeq(l3, 4, Len(l3))

\* one row of get_project_data before the two rendering passes
project_row(candidate_data, candidate) ==
    LET l0 == [k \in 1..6 |-> candidate_data[k + 1]]
        l1 == <<l0[1], candidate[2]>> \o SubSeq(l0, 2, 6)
        l2 == Append(l1, IF Truthy(candidate[26]) THEN InterviewGlyph ELSE EmptyStr)
        l3 == Append(l2, l2[3])
    IN  SubSeq(l3, 1, 2) \o SubSeq(l3, 4, Len(l3))

\* render() putting the glyph on index 2
render_score(sublist) ==
    LET pass1 == [k \in 1..Len(sublist) |->
                    IF sublist[k] # None THEN sublist[k] ELSE EmptyStr]
    IN  [k \in 1..Len(pass1) |->
            IF k - 1 # 2 \/ ~Truthy(pass1[k]) THEN pass1[k] ELSE NoteGlyph]

\* the two rendering passes over a row
render(sublist) ==
    LET pass1 == [k \in 1..Len(sublist) |->
                    IF sublist[k] # None THEN sublist[k] ELSE EmptyStr]
    IN  [k \in 1..Len(pass1) |->
            IF k - 1 # 7 \/ ~Truthy(pass1[k]) THEN pass1[k] ELSE NoteGlyph]

RECURSIVE Flatten(_)
Flatten(lists) == IF lists = <<>> THEN <<>> ELSE Head(lists) \o Flatten(Tail(lists))

\* the projection loop of get_project_data over the manager's snapshots
projection(m) ==
    LET rowsOf(d) ==
            IF d[1] = m.project_id
            THEN LET joined == SelectSeq(m.candidate_data, LAMBDA c : c[1] = d[2])
                 IN  [k \in 1..Len(joined) |-> render(project_row(d, joined[k]))]
            ELSE <<>>
    IN  Flatten([k \in 1..Len(m.cms_data) |-> rowsOf(m.cms_data[k])])

(***************************************************************************)
(* The shortlist, as a program                                             *)
(***************************************************************************)
\* f"{k:04d}" for k < 10
IdOf(k) == S(<<"0", "0", "0">> \o NatStr(k))

Projects == {Id1, Id2}

ShortlistDossier(project_id, blacklisted, c_description, pv_description) ==
    [i \in 5..27 |->
        CASE i = 19 -> project_id
          [] i = 20 -> blacklisted
          [] i = 26 -> c_description
          [] i = 27 -> pv_description
          [] OTHER -> EmptyStr]

Text == S(<<"o", "k">>)

ShortlistDossiers ==
    {ShortlistDossier(Id1, StrFalse, Text, EmptyStr),
     ShortlistDossier(Id1, StrTrue, None, None),
     ShortlistDossier(Id2, StrFalse, EmptyStr, Text)}

\* candidate tables with the identifiers generate_candidate_id gives: 0001, 0002, ..
ShortlistTables ==
    UNION {{Stored([k \in 1..n |->
                      CandidateRow(IdOf(k), IF k % 2 = 1 THEN Ana ELSE Bo,
                                   GenderF, I(1990), d[k])]) :
              d \in [1..n -> ShortlistDossiers]} : n \in 0..MaxCandidates}

\* a shortlist entry as the setters update_candidate_note,
\* update_candidate_rating and update_selection_status leave it
Entry(project_id, candidate_id, note, score, status) ==
    [i \in 0..7 |->
        CASE i = 0 -> I(1)
          [] i = 1 -> project_id
          [] i = 2 -> candidate_id
          [] i = 3 -> note
          [] i = 4 -> score
          [] OTHER -> status[i - 4]]

\* the shortlist tables the program starts from: no entry, or one entry
InitShortlists ==
    {<<>>,
     <<Entry(Id1, Id1, S(<<"h", "i">>), I(7), <<I(1), I(0), I(0)>>)>>,
     <<Entry(Id1, Id1, None, I(7), <<None, None, None>>)>>,
     <<Entry(Id1, Id2, EmptyStr, None, <<I(0), I(1), I(0)>>)>>}

InitCMS ==
    /\ candidates \in ShortlistTables
    /\ cms \in InitShortlists
    /\ today_year \in CurrentYears
    /\ cs = NoSearch
    /\ mgr = [m \in 1..MaxManagers |-> NoManager]
    /\ ret = NoRet
    /\ clients = <<>>
    /\ projects = <<>>
    /\ editors = NoEditors
    /\ dash = NoDashboard
    /\ writes = <<>>
    /\ sync = [m \in 1..MaxManagers |-> NoSync]

\* CMSManager(project_id): reads the three tables
NewManager(m, project_id) ==
    /\ mgr' = [mgr EXCEPT ![m] = [built |-> TRUE, project_id |-> project_id,
                                  cms_data |-> cms, candidate_data |-> candidates]]
    /\ ret' = NoRet
    /\ writes' = <<>>
    /\ UNCHANGED <<candidates, cms, today_year, cs, clients, projects, editors, dash, sync>>

Call_add_candidates_to_project(m) ==
    /\ mgr[m].built
    /\ LET missing == candidates_not_added(mgr[m])
       IN  /\ Len(cms) + Len(missing) <= MaxCms
           /\ \E oks \in [1..Len(missing) -> BOOLEAN] :
                 /\ cms' = InsertAll(cms, mgr[m].project_id, missing, oks)
                 /\ writes' = InsertWrites(mgr[m].project_id, missing, oks)
           /\ ret' = Call("add_candidates_to_project", <<m>>, Returned(missing))
    /\ UNCHANGED <<candidates, today_year, cs, mgr, clients, projects, editors, dash, sync>>

Call_get_project_data(m) ==
    /\ mgr[m].built
    /\ LET missing == candidates_not_added(mgr[m])
       IN  /\ Len(cms) + Len(missing) <= MaxCms
           /\ \E oks \in [1..Len(missing) -> BOOLEAN] :
                 /\ cms' = InsertAll(cms, mgr[m].project_id, missing, oks)
                 /\ writes' = InsertWrites(mgr[m].project_id, missing, oks)
    /\ ret' = Call("get_project_data", <<m>>, Returned(projection(mgr[m])))
    /\ UNCHANGED <<candidates, today_year, cs, mgr, clients, projects, editors, dash, sync>>

NextCMS ==
    \/ \E m \in 1..MaxManagers, p \in Projects : NewManager(m, p)
    \/ \E m \in 1..MaxManagers : Call_add_candidates_to_project(m)
    \/ \E m \in 1..MaxManagers : Call_get_project_data(m)

SpecCMS == InitCMS /\ [][NextCMS]_vars

(***************************************************************************)
(* Properties of the shortlist                                             *)
(***************************************************************************)
\* C4: the shortlist table holds at most one entry per (project id,
\* candidate id) pair after any sequence of sync / project-data requests.
C4_NoDuplicateEntries ==
    \A i \in 1..Len(cms) : \A j \in 1..Len(cms) :
        i # j => <<cms[i][1], cms[i][2]>> # <<cms[j][1], cms[j][2]>>

Projected == ret.op = "get_project_data"

\* the manager whose get_project_data returned last
Caller == mgr[ret.args[1]]

\* the (entry, candidate) positions get_project_data joins, and their order
Joined(m) ==
    {p \in (1..Len(m.cms_data)) \X (1..Len(m.candidate_data)) :
        /\ m.cms_data[p[1]][1] = m.project_id
        /\ m.candidate_data[p[2]][1] = m.cms_data[p[1]][2]}

Earlier(p, q) == p[1] < q[1] \/ (p[1] = q[1] /\ p[2] < q[2])

NthJoined(J, n) == CHOOSE p \in J : Cardinality({q \in J : Earlier(q, p)}) = n - 1

EntryOf(n) == Caller.cms_data[NthJoined(Joined(Caller), n)[1]]
CandidateOf(n) == Caller.candidate_data[NthJoined(Joined(Caller), n)[2]]

Shown(v) == IF v = None THEN EmptyStr ELSE v

OneRowPerJoin == Len(ret.val) = Cardinality(Joined(Caller))

\* C5 as stated: a non-null rating score is rendered as the glyph and never
\* as its numeric value, and no None is returned.
C5_ScoreShownAsGlyph ==
    Projected =>
        /\ OneRowPerJoin
        /\ \A n \in 1..Len(ret.val) :
              /\ EntryOf(n)[4] # None =>
                    /\ \A k \in 1..Len(ret.val[n]) : ret.val[n][k] # EntryOf(n)[4]
                    /\ \E k \in 1..Len(ret.val[n]) : ret.val[n][k] = NoteGlyph
              /\ \A k \in 1..Len(ret.val[n]) : ret.val[n][k] # None

\* C5 amended: the glyph stands in the last column (index 7) for a non-empty
\* note; the rating score is returned as stored (7 stays 7); every None is
\* rendered as the empty string.
C5_NoteShownAsGlyph ==
    Projected =>
        /\ OneRowPerJoin
        /\ \A n \in 1..Len(ret.val) :
              /\ ret.val[n][3] = Shown(EntryOf(n)[4])
              /\ ret.val[n][8] = IF Truthy(EntryOf(n)[3]) THEN NoteGlyph ELSE EmptyStr
              /\ \A k \in 1..Len(ret.val[n]) : ret.val[n][k] # None

\* an entry with score 7 and a None note was rendered
C5_Witness ==
    /\ Projected
    /\ \E n \in 1..Len(ret.val) :
          /\ EntryOf(n)[4] = I(7)
          /\ EntryOf(n)[3] = None
          /\ ret.val[n][3] = I(7)
          /\ ret.val[n][8] = EmptyStr

InterviewMarker(candidate) == IF Truthy(candidate[26]) THEN InterviewGlyph ELSE EmptyStr

Eligible(m, candidate) == candidate[19] = m.project_id /\ candidate[20] = StrFalse

\* the snapshot of the manager has an entry for the pair
InSnapshot(m, candidate_id) ==
    \E k \in 1..Len(m.cms_data) :
        m.cms_data[k][1] = m.project_id /\ m.cms_data[k][2] = candidate_id

AllWritten == \A k \in 1..Len(writes) : writes[k].ok

\* C15: the projection of a get_project_data call sees the entries its own
\* sync step wrote: every candidate of the project that is not blacklisted
\* is a row of the result, those inserted by this call included.
C15_ProjectionSeesSync ==
    (Projected /\ AllWritten) =>
        \A k \in 1..Len(Caller.candidate_data) :
            Eligible(Caller, Caller.candidate_data[k]) =>
                \E n \in 1..Len(ret.val) : ret.val[n][1] = Caller.candidate_data[k][1]

Synced == ret.op \in {"add_candidates_to_project", "get_project_data"}

\* the pairs the sync step has to insert
MissingPairs(m) ==
    {<<m.project_id, m.candidate_data[k][1]>> : k \in
        {j \in 1..Len(m.candidate_data) :
            /\ Eligible(m, m.candidate_data[j])
            /\ ~InSnapshot(m, m.candidate_data[j][1])}}

Syncers == 1..2

InitRace ==
    /\ candidates \in ShortlistTables
    /\ cms \in InitShortlists
    /\ today_year \in CurrentYears
    /\ cs = NoSearch
    /\ mgr = [m \in Syncers |-> NoManager]
    /\ ret = NoRet
    /\ clients = <<>>
    /\ projects = <<>>
    /\ editors = NoEditors
    /\ dash = NoDashboard
    /\ writes = <<>>
    /\ sync = [m \in Syncers |-> NoSync]

\* CMSManager(project_id) of one of the two callers: reads the tables
Construct(m, project_id) ==
    /\ ~mgr[m].built
    /\ mgr' = [mgr EXCEPT ![m] = [built |-> TRUE, project_id |-> project_id,
                                  cms_data |-> cms, candidate_data |-> candidates]]
    /\ UNCHANGED <<candidates, cms, today_year, cs, ret,
                   clients, projects, editors, dash, writes, sync>>

\* add_candidates_to_project up to the loop: the two list comprehensions
\* over the object's snapshots
Begin_add_candidates_to_project(m) ==
    /\ mgr[m].built
    /\ sync[m] = NoSync
    /\ sync' = [sync EXCEPT ![m] = [running |-> TRUE,
                                    candidates_not_added |-> candidates_not_added(mgr[m]),
                                    next |-> 1]]
    /\ UNCHANGED <<candidates, cms, today_year, cs, mgr, ret,
                   clients, projects, editors, dash, writes>>

\* one turn of the loop: one save_data call (the table is kept within MaxCms
\* rows)
Insert_candidate(m) ==
    /\ sync[m].running
    /\ sync[m].next <= Len(sync[m].candidates_not_added)
    /\ Len(cms) < MaxCms
    /\ LET data == <<mgr[m].project_id, sync[m].candidates_not_added[sync[m].next]>>
       IN  \E ok \in BOOLEAN :
              /\ cms' = save_data_insert(cms, CmsRow(data[1], data[2]), ok)
              /\ writes' = Append(writes, Write("p1_cms", data, ok))
    /\ sync' = [sync EXCEPT ![m].next = @ + 1]
    /\ UNCHANGED <<candidates, today_year, cs, mgr, ret, clients, projects, editors, dash>>

\* the return after the loop
End_add_candidates_to_project(m) ==
    /\ sync[m].running
    /\ sync[m].next > Len(sync[m].candidates_not_added)
    /\ sync' = [sync EXCEPT ![m].running = FALSE]
    /\ ret' = Call("add_candidates_to_project", <<m>>,
                   Returned(sync[m].candidates_not_added))
    /\ UNCHANGED <<candidates, cms, today_year, cs, mgr,
                   clients, projects, editors, dash, writes>>

NextRace ==
    \/ \E m \in Syncers, p \in Projects : Construct(m, p)
    \/ \E m \in Syncers : Begin_add_candidates_to_project(m)
    \/ \E m \in Syncers : Insert_candidate(m)
    \/ \E m \in Syncers : End_add_candidates_to_project(m)

SpecRace == InitRace /\ [][NextRace]_vars

(***************************************************************************)
(* Properties of two sync steps at the same time                           *)
(***************************************************************************)
\* the identifiers of the candidates that both managers, built for the same
\* project, are to add and that neither snapshot has an entry for
BothMissing(m1, m2) ==
    {candidates[k][1] : k \in
        {j \in 1..Len(candidates) :
            /\ mgr[m1].built /\ mgr[m2].built
            /\ mgr[m1].project_id = mgr[m2].project_id
            /\ Eligible(mgr[m1], candidates[j])
            /\ ~InSnapshot(mgr[m1], candidates[j][1])
            /\ ~InSnapshot(mgr[m2], candidates[j][1])}}

Begun(m) == sync[m].next >= 1
Ended(m) == Begun(m) /\ ~sync[m].running

EntriesOf(project_id, candidate_id) ==
    {j \in 1..Len(cms) : cms[j][1] = project_id /\ cms[j][2] = candidate_id}

\* C17: two managers of one project that both read the shortlist before
\* either wrote both find the same pair missing and both issue an insert for
\* it; when the database stores both (neither write is refused) the
\* shortlist holds two entries for the pair.
C17_RaceInsertsTwice ==
    \A m1 \in Syncers : \A m2 \in Syncers \ {m1} :
        \A c \in BothMissing(m1, m2) :
            LET pair == <<mgr[m1].project_id, c>>
                issued == {k \in 1..Len(writes) : writes[k].data = pair}
            IN  /\ (Begun(m1) /\ Begun(m2)) =>
                      /\ c \in Elems(sync[m1].candidates_not_added)
                      /\ c \in Elems(sync[m2].candidates_not_added)
                /\ (Ended(m1) /\ Ended(m2)) =>
                      /\ Cardinality(issued) = 2
                      /\ (\A k \in issued : writes[k].ok) =>
                            Cardinality(EntriesOf(pair[1], c)) = 2

\* both managers have returned and the shortlist holds two entries for a pair
\* that neither snapshot had
C17_Witness ==
    \E c \in BothMissing(1, 2) :
        /\ Ended(1)
        /\ Ended(2)
        /\ Cardinality(EntriesOf(mgr[1].project_id, c)) = 2

(***************************************************************************)
(* Dashboard                                                               *)
(***************************************************************************)
work_experience_levels ==
    <<S(<<"M", "N", "G", "-", "E">>),
      S(<<"M", "N", "G", "-", "M">>),
      S(<<"M", "N", "G", "-", "S">>),
      S(<<"C", "O", "N", "-", "E">>),
      S(<<"C", "O", "N", "-", "M">>),
      S(<<"C", "O", "N", "-", "S">>),
      S(<<"C", "O", "M", "-", "E">>),
      S(<<"C", "O", "M", "-", "M">>),
      S(<<"C", "O", "M", "-", "S">>),
      S(<<"R", "E", "T", "-", "E">>),
      S(<<"R", "E", "T", "-", "M">>),
      S(<<"R", "E", "T", "-", "S">>),
      S(<<"M", "A", "R", "-", "E">>),
      S(<<"M", "A", "R", "-", "M">>),
      S(<<"M", "A", "R", "-", "S">>),
      S(<<"B", "A", "N", "-", "E">>),
      S(<<"B", "A", "N", "-", "M">>),
      S(<<"B", "A", "N", "-", "S">>),
      S(<<"A", "C", "C", "-", "E">>),
      S(<<"A", "C", "C", "-", "M">>),
      S(<<"A", "C", "C", "-", "S">>),
      S(<<"P", "R", "D", "-", "E">>),
      S(<<"P", "R", "D", "-", "M">>),
      S(<<"P", "R", "D", "-", "S">>),
      S(<<"C", "U", "L", "-", "E">>),
      S(<<"C", "U", "L", "-", "M">>),
      S(<<"C", "U", "L", "-", "S">>),
      S(<<"H", "R", "-", "E">>),
      S(<<"H", "R", "-", "M">>),
      S(<<"H", "R", "-", "S">>)>>

work_experience_no_levels ==
    <<S(<<"A", "D", "M">>),
      S(<<"C", "O", "P">>),
      S(<<"D", "I", "S">>),
      S(<<"W", "H", "W">>),
      S(<<"D", "E", "S">>),
      S(<<"D", "S", "K">>),
      S(<<"F", "I", "N">>),
      S(<<"M", "N", "L">>),
      S(<<"H", "O", "T">>),
      S(<<"W", "T", "R">>),
      S(<<"L", "O", "G">>),
      S(<<"N", "U", "R">>),
      S(<<"P", "U", "B">>),
      S(<<"M", "N", "T">>),
      S(<<"B", "S", "A">>),
      S(<<"P", "R", "M">>)>>

\* str.split(':')
RECURSIVE Split(_)
Split(chars) ==
    IF \A i \in 1..Len(chars) : chars[i] # ":" THEN <<chars>>
    ELSE LET i == CHOOSE j \in 1..Len(chars) :
                     chars[j] = ":" /\ \A h \in 1..(j - 1) : chars[h] # ":"
         IN  <<SubSeq(chars, 1, i - 1)>> \o Split(SubSeq(chars, i + 1, Len(chars)))

\* the number of items of a list that pass a test, as sum(1 for item in .. if ..)
CountOf(K) == I(Cardinality(K))

\* _candidates_work_experience_counter() testing "we in item"
candidates_work_experience_counter_in_item(candidates_data, work_experience_input_list) ==
    LET work_experience_data_list == [k \in 1..Len(candidates_data) |-> candidates_data[k][16]]
    IN  IF /\ work_experience_input_list # <<>>
           /\ \E k \in 1..Len(work_experience_data_list) :
                 work_experience_data_list[k].t # "str"
        THEN Raised("AttributeError")
        ELSE Returned([i \in 1..Len(work_experience_input_list) |->
                 CountOf({k \in 1..Len(work_experience_data_list) :
                             IsSubstring(work_experience_input_list[i].s,
                                         work_experience_data_list[k].s)})])

\* item.split(':') is a str method: a NULL (None) or numeric work_experience
\* raises AttributeError as soon as the first code is counted
candidates_work_experience_counter(candidates_data, work_experience_input_list) ==
    LET work_experience_data_list == [k \in 1..Len(candidates_data) |-> candidates_data[k][16]]
    IN  IF /\ work_experience_input_list # <<>>
           /\ \E k \in 1..Len(work_experience_data_list) :
                 work_experience_data_list[k].t # "str"
        THEN Raised("AttributeError")
        ELSE Returned([i \in 1..Len(work_experience_input_list) |->
                 CountOf({k \in 1..Len(work_experience_data_list) :
                             \E j \in 1..Len(Split(work_experience_data_list[k].s)) :
                                 Split(work_experience_data_list[k].s)[j] =
                                     work_experience_input_list[i].s})])

\* item[18] > 0 is defined for a number only: None > 0 and "7" > 0 raise
\* TypeError
candidates_basic_stat(candidates_data) ==
    LET items == 1..Len(candidates_data)
        scored(k) == candidates_data[k][18] # EmptyStr
    IN  IF \E k \in items : scored(k) /\ candidates_data[k][18].t # "int"
        THEN Raised("TypeError")
        ELSE Returned(
               <<CountOf(items),
                 CountOf({k \in items : candidates_data[k][26] # EmptyStr}),
                 CountOf({k \in items : \/ candidates_data[k][21] # None
                                        \/ candidates_data[k][23] # None}),
                 CountOf({k \in items : scored(k) /\ candidates_data[k][18].n > 0}),
                 CountOf({k \in items : candidates_data[k][20] = StrTrue})>>)

client_stat(client_data) == I(Len(client_data))

projects_stat(projects_data) == I(Len(projects_data))

\* the dict literal is evaluated key by key: the first method that raises
\* ends the call
statistics(d) ==
    LET basic == candidates_basic_stat(d.candidates_data)
        we_levels == candidates_work_experience_counter(d.candidates_data,
                                                        work_experience_levels)
        we_no_levels == candidates_work_experience_counter(d.candidates_data,
                                                           work_experience_no_levels)
    IN  IF basic.err # "none" THEN basic
        ELSE IF we_levels.err # "none" THEN we_levels
        ELSE IF we_no_levels.err # "none" THEN we_no_levels
        ELSE Returned([clients |-> client_stat(d.client_data),
                       projects |-> projects_stat(d.projects_data),
                       candidates_basic |-> basic.val,
                       candidates_we_levels |-> we_levels.val,
                       candidates_we_no_levels |-> we_no_levels.val])

(***************************************************************************)
(* The dashboard, as a program                                             *)
(***************************************************************************)
\* columns 5..27 of a candidate as the statistics read them: 16
\* work_experience, 18 talent_score, 20 blacklisted, 21 kn1_description,
\* 22 kn1_score, 23 kn2_description, 24 kn2_score, 26 c_description,
\* 27 pv_description
DashboardDossier(work_experience, talent_score, blacklisted, kn1, kn2, c_description, pv_description) ==
    [i \in 5..27 |->
        CASE i = 16 -> work_experience
          [] i = 18 -> talent_score
          [] i = 19 -> Id1
          [] i = 20 -> blacklisted
          [] i = 21 -> kn1[1]
          [] i = 22 -> kn1[2]
          [] i = 23 -> kn2[1]
          [] i = 24 -> kn2[2]
          [] i = 26 -> c_description
          [] i = 27 -> pv_description
          [] OTHER -> EmptyStr]

NotTested == <<None, None>>

DashboardDossiers ==
    {DashboardDossier(S(<<"M", "N", "G", "-", "E", ":", "F", "I", "N">>), I(7), StrFalse,
                      <<Text, I(5)>>, NotTested, Text, Text),
     DashboardDossier(S(<<"F", "I", "N">>), I(0), StrTrue,
                      NotTested, NotTested, EmptyStr, EmptyStr),
     DashboardDossier(S(<<"F", "I", "N", ":", "F", "I", "N", ":", "H", "R", "-", "S">>), EmptyStr, StrFalse,
                      <<Text, None>>, NotTested, EmptyStr, Text),
     DashboardDossier(S(<<"F", "I", "N", "A", ":", "X", "H", "R", "-", "E">>), None, StrFalse,
                      NotTested, <<None, I(4)>>, None, None),
     DashboardDossier(None, I(3), StrFalse,
                      NotTested, NotTested, Text, EmptyStr)}

DashboardTables ==
    UNION {{Stored([k \in 1..n |->
                      CandidateRow(IdOf(k), IF k % 2 = 1 THEN Ana ELSE Bo,
                                   GenderF, I(1990), d[k])]) :
              d \in [1..n -> DashboardDossiers]} : n \in 0..MaxCandidates}

InitDashboard ==
    /\ candidates \in DashboardTables
    /\ cms = <<>>
    /\ today_year \in CurrentYears
    /\ cs = NoSearch
    /\ mgr = [m \in 1..MaxManagers |-> NoManager]
    /\ ret = NoRet
    /\ clients = <<>>
    /\ projects = <<>>
    /\ editors = NoEditors
    /\ dash = NoDashboard
    /\ writes = <<>>
    /\ sync = [m \in 1..MaxManagers |-> NoSync]

\* Dashboard(): reads the three tables
NewDashboard ==
    /\ ~dash.built
    /\ dash' = [built |-> TRUE, client_data |-> clients, projects_data |-> projects,
                candidates_data |-> candidates]
    /\ UNCHANGED <<candidates, cms, today_year, cs, mgr, ret,
                   clients, projects, editors, writes, sync>>

Call_candidates_basic_stat ==
    /\ dash.built
    /\ ret' = Call("_candidates_basic_stat", <<>>,
                   candidates_basic_stat(dash.candidates_data))
    /\ UNCHANGED <<candidates, cms, today_year, cs, mgr,
                   clients, projects, editors, dash, writes, sync>>

Call_candidates_work_experience_counter(work_experience_input_list) ==
    /\ dash.built
    /\ ret' = Call("_candidates_work_experience_counter", <<work_experience_input_list>>,
                   candidates_work_experience_counter(dash.candidates_data,
                                                      work_experience_input_list))
    /\ UNCHANGED <<candidates, cms, today_year, cs, mgr,
                   clients, projects, editors, dash, writes, sync>>

Call_statistics ==
    /\ dash.built
    /\ ret' = Call("statistics", <<>>, statistics(dash))
    /\ UNCHANGED <<candidates, cms, today_year, cs, mgr,
                   clients, projects, editors, dash, writes, sync>>

NextDashboard ==
    \/ NewDashboard
    \/ Call_candidates_basic_stat
    \/ \E l \in {work_experience_levels, work_experience_no_levels} :
          Call_candidates_work_experience_counter(l)
    \/ Call_statistics

SpecDashboard == InitDashboard /\ [][NextDashboard]_vars

(***************************************************************************)
(* Properties of the dashboard                                             *)
(***************************************************************************)
Counted == ret.op = "_candidates_work_experience_counter"

\* the code stands as a whole tag in the colon-delimited field: it starts at
\* the beginning of the field or after a colon and ends at the end of the
\* field or before a colon
IsTagOf(code, field) ==
    \E a \in 1..Len(field) : \E b \in a..Len(field) :
        /\ SubSeq(field, a, b) = code
        /\ (a = 1 \/ field[a - 1] = ":")
        /\ (b = Len(field) \/ field[b + 1] = ":")

PositionOf(code, vocabulary) == CHOOSE i \in 1..Len(vocabulary) : vocabulary[i] = code

FIN == S(<<"F", "I", "N">>)
MNG_E == S(<<"M", "N", "G", "-", "E">>)

IsPositiveNumber(v) == v.t = "int" /\ v.n > 0

\* C12: for every candidate snapshot, candidates with an empty or absent
\* talent score included, _candidates_basic_stat returns the 5 counts: all
\* candidates, those with a non-empty interview description, those with
\* either knowledge-test score present, those with a positive numeric talent
\* score, those whose blacklisted flag is "True".
C12_BasicStatByDataModel ==
    ret.op = "_candidates_basic_stat" =>
        LET data == dash.candidates_data
            items == 1..Len(data)
        IN  /\ ret.err = "none"
            /\ ret.val =
                 <<I(Len(data)),
                   I(Cardinality({k \in items : Truthy(data[k][27])})),
                   I(Cardinality({k \in items : data[k][22] # None \/ data[k][24] # None})),
                   I(Cardinality({k \in items : IsPositiveNumber(data[k][18])})),
                   I(Cardinality({k \in items : data[k][20] = StrTrue}))>>

(***************************************************************************)
(* Clients, Projects, Candidates: adding and editing rows                  *)
(***************************************************************************)
\* the Python booleans
PyTrue == [t |-> "bool", s |-> <<>>, n |-> 1]
PyFalse == [t |-> "bool", s |-> <<>>, n |-> 0]

\* a statement's parameters as the row an INSERT stores (the row id comes
\* from the table)
NewRow(data) == [i \in 0..Len(data) |-> IF i = 0 THEN I(0) ELSE data[i]]

\* DatabaseManager.save_data with "UPDATE .. SET <columns 2..> WHERE <id
\* column> = %s": the parameters are the new column values followed by the
\* identifier; every row with that identifier is updated, or, when the
\* statement fails, none
save_data_update(table, data, ok) ==
    IF ~ok THEN table
    ELSE [k \in 1..Len(table) |->
            IF table[k][1] = data[Len(data)]
            THEN [i \in DOMAIN table[k] |-> IF i >= 2 THEN data[i - 1] ELSE table[k][i]]
            ELSE table[k]]

MaxOf(K) == CHOOSE k \in K : \A j \in K : j <= k

generate_client_id(client_data) ==
    LET data == {PyInt(client_data[k][1]) : k \in 1..Len(client_data)}
        max_id == IF data # {} THEN MaxOf(data) + 1 ELSE 1
    IN  IdOf(max_id)

generate_project_id(projects_data) ==
    LET data == {PyInt(projects_data[k][1]) : k \in 1..Len(projects_data)}
        max_id == IF data # {} THEN MaxOf(data) + 1 ELSE 1
    IN  IdOf(max_id)

generate_candidate_id(candidate_data) ==
    LET data == {PyInt(candidate_data[k][1]) : k \in 1..Len(candidate_data)}
        max_id == IF data # {} THEN MaxOf(data) + 1 ELSE 1
    IN  IdOf(max_id)

\* the f-strings the methods return
ClientAdded(id) == S(<<"c", "l", "i", "e", "n", "t", " ", "w", "i", "t", "h", " ", "i", "d", " ">> \o PyStr(id) \o <<" ", "a", "d", "d", "e", "d", " ", "t", "o", " ", "d", "a", "t", "a", "b", "a", "s", "e">>)
ClientEdited(id) == S(<<"c", "l", "i", "e", "n", "t", " ", "d", "a", "t", "a", " ", "w", "i", "t", "h", " ", "i", "d", " ">> \o PyStr(id) \o <<" ", "e", "d", "i", "t", "e", "d">>)
ProjectAdded(id) == S(<<"p", "r", "o", "j", "e", "c", "t", " ", "w", "i", "t", "h", " ", "i", "d", " ">> \o PyStr(id) \o <<" ", "a", "d", "d", "e", "d", " ", "t", "o", " ", "t", "h", "e", " ", "d", "a", "t", "a", "b", "a", "s", "e">>)
ProjectEdited(id) == S(<<"p", "r", "o", "j", "e", "c", "t", " ", "d", "a", "t", "a", " ", "w", "i", "t", "h", " ", "i", "d", " ">> \o PyStr(id) \o <<" ", "e", "d", "i", "t", "e", "d">>)
CandidateAdded(id) == S(<<"c", "a", "n", "d", "i", "d", "a", "t", "e", " ", "w", "i", "t", "h", " ", "i", "d", " ">> \o PyStr(id) \o <<" ", "a", "d", "d", "e", "d", " ", "t", "o", " ", "d", "a", "t", "a", "b", "a", "s", "e">>)

\* what an add_edit_* call does: the statement's parameters, the table it
\* leaves and the message it returns
Done(table_name, data, ok, table, message) ==
    [write |-> Write(table_name, data, ok), table |-> table, message |-> message]

\* add_edit_client(data): data[0] == 'True' adds, anything else edits
add_edit_client(client_data, table, data, ok) ==
    LET condition == data[1]
        rest == Tail(data)
    IN  IF condition = StrTrue
        THEN LET added == <<generate_client_id(client_data)>> \o rest
             IN  Done("p1_clients", added, ok,
                      save_data_insert(table, NewRow(added), ok), ClientAdded(added[1]))
        ELSE LET edited == Tail(rest) \o <<rest[1]>>
             IN  Done("p1_clients", edited, ok,
                      save_data_update(table, edited, ok), ClientEdited(edited[Len(edited)]))

\* add_edit_project(data): data[0] == 'True' adds, anything else edits
add_edit_project(projects_data, table, data, ok) ==
    LET condition == data[1]
        rest == Tail(data)
    IN  IF condition = StrTrue
        THEN LET added == <<generate_project_id(projects_data)>> \o rest
             IN  Done("p1_projects", added, ok,
                      save_data_insert(table, NewRow(added), ok), ProjectAdded(added[1]))
        ELSE LET edited == Tail(rest) \o <<rest[1]>>
             IN  Done("p1_projects", edited, ok,
                      save_data_update(table, edited, ok), ProjectEdited(edited[Len(edited)]))

\* add_edit_candidate(data): data[0] is False adds, anything else edits (and
\* answers with the clients' message)
add_edit_candidate(candidate_data, table, data, ok) ==
    LET condition == data[1]
        rest == Tail(data)
    IN  IF condition = PyFalse
        THEN LET added == <<generate_candidate_id(candidate_data)>> \o rest
             IN  Done("p1_candidates", added, ok,
                      save_data_insert(table, NewRow(added), ok), CandidateAdded(added[1]))
        ELSE LET edited == Tail(rest) \o <<rest[1]>>
             IN  Done("p1_candidates", edited, ok,
                      save_data_update(table, edited, ok), ClientEdited(edited[Len(edited)]))

(***************************************************************************)
(* Adding and editing, as a program                                        *)
(***************************************************************************)
Acme == S(<<"A", "c", "m", "e">>)

\* company, city, industry, note, ci_name, ci_phone, ci_email
ClientFields(company) == <<company, Oslo, EmptyStr, EmptyStr, Ana, EmptyStr, EmptyStr>>

\* client, project_name, job_position, number_employees, note, compensation
ProjectFields(project_name) == <<Id1, project_name, EmptyStr, I(1), EmptyStr, EmptyStr>>

\* name_surname .. pv_description: the 26 columns after candidate_id
CandidateFields(name_surname) ==
    [i \in 1..26 |->
        CASE i = 1 -> name_surname
          [] i = 2 -> GenderF
          [] i = 3 -> I(1990)
          [] OTHER -> FullDossier[i + 1]]

\* the identifiers an edit is asked for; an edit submits the same column
\* values as an add
EditIds == {Id1, Id2}

ClientInputs ==
    {<<StrTrue>> \o ClientFields(Acme)}
    \cup {<<StrFalse, id>> \o ClientFields(Acme) : id \in EditIds}

ProjectInputs ==
    {<<StrTrue>> \o ProjectFields(Acme)}
    \cup {<<StrFalse, id>> \o ProjectFields(Acme) : id \in EditIds}

CandidateInputs ==
    {<<PyFalse>> \o CandidateFields(Ana)}
    \cup {<<PyTrue, id>> \o CandidateFields(Ana) : id \in EditIds}

\* an empty database
InitRegistry ==
    /\ candidates = <<>>
    /\ cms = <<>>
    /\ today_year \in CurrentYears
    /\ cs = NoSearch
    /\ mgr = [m \in 1..MaxManagers |-> NoManager]
    /\ ret = NoRet
    /\ clients = <<>>
    /\ projects = <<>>
    /\ editors = NoEditors
    /\ dash = NoDashboard
    /\ writes = <<>>
    /\ sync = [m \in 1..MaxManagers |-> NoSync]

\* Clients(): reads p1_clients
NewClients ==
    /\ editors' = [editors EXCEPT !["Clients"] = [built |-> TRUE, data |-> clients]]
    /\ ret' = NoRet
    /\ writes' = <<>>
    /\ UNCHANGED <<candidates, cms, today_year, cs, mgr, clients, projects, dash, sync>>

\* Projects(): reads p1_projects
NewProjects ==
    /\ editors' = [editors EXCEPT !["Projects"] = [built |-> TRUE, data |-> projects]]
    /\ ret' = NoRet
    /\ writes' = <<>>
    /\ UNCHANGED <<candidates, cms, today_year, cs, mgr, clients, projects, dash, sync>>

\* Candidates(): reads p1_candidates
NewCandidates ==
    /\ editors' = [editors EXCEPT !["Candidates"] = [built |-> TRUE, data |-> candidates]]
    /\ ret' = NoRet
    /\ writes' = <<>>
    /\ UNCHANGED <<candidates, cms, today_year, cs, mgr, clients, projects, dash, sync>>

Call_add_edit_client(data) ==
    /\ editors["Clients"].built
    /\ data[1] = StrTrue => Len(clients) < MaxCandidates
    /\ \E ok \in BOOLEAN :
          LET done == add_edit_client(editors["Clients"].data, clients, data, ok)
          IN  /\ clients' = done.table
              /\ writes' = <<done.write>>
              /\ ret' = Call("add_edit_client", data, Returned(done.message))
    /\ UNCHANGED <<candidates, cms, today_year, cs, mgr, projects, editors, dash, sync>>

Call_add_edit_project(data) ==
    /\ editors["Projects"].built
    /\ data[1] = StrTrue => Len(projects) < MaxCandidates
    /\ \E ok \in BOOLEAN :
          LET done == add_edit_project(editors["Projects"].data, projects, data, ok)
          IN  /\ projects' = done.table
              /\ writes' = <<done.write>>
              /\ ret' = Call("add_edit_project", data, Returned(done.message))
    /\ UNCHANGED <<candidates, cms, today_year, cs, mgr, clients, editors, dash, sync>>

Call_add_edit_candidate(data) ==
    /\ editors["Candidates"].built
    /\ data[1] = PyFalse => Len(candidates) < MaxCandidates
    /\ \E ok \in BOOLEAN :
          LET done == add_edit_candidate(editors["Candidates"].data, candidates, data, ok)
          IN  /\ candidates' = done.table
              /\ writes' = <<done.write>>
              /\ ret' = Call("add_edit_candidate", data, Returned(done.message))
    /\ UNCHANGED <<cms, today_year, cs, mgr, clients, projects, editors, dash, sync>>

NextRegistry ==
    \/ NewClients
    \/ NewProjects
    \/ NewCandidates
    \/ \E data \in ClientInputs : Call_add_edit_client(data)
    \/ \E data \in ProjectInputs : Call_add_edit_project(data)
    \/ \E data \in CandidateInputs : Call_add_edit_candidate(data)

SpecRegistry == InitRegistry /\ [][NextRegistry]_vars

(***************************************************************************)
(* Properties of adding and editing                                        *)
(***************************************************************************)
UniqueIds(table) ==
    \A i \in 1..Len(table) : \A j \in 1..Len(table) :
        i # j => table[i][1] # table[j][1]

\* C13: after any sequence of adds, several adds through one object
\* included, the identifiers of the client, project and candidate tables are
\* unique: a generated identifier differs from every identifier stored.
C13_IdentifiersUnique ==
    /\ UniqueIds(clients)
    /\ UniqueIds(projects)
    /\ UniqueIds(candidates)

\* the text of a message that reports a stored or edited row
ReportsSuccess(message) ==
    /\ message.t = "str"
    /\ \/ IsSubstring(<<" ", "a", "d", "d", "e", "d", " ", "t", "o", " ">>, message.s)
       \/ IsSubstring(<<" ", "e", "d", "i", "t", "e", "d">>, message.s)

\* C14: a write that failed hands its caller a value that differs from the
\* value of a write that succeeded, and the method that issued it does not
\* report success.
C14_WriteFailureReported ==
    \A k \in 1..Len(writes) :
        ~writes[k].ok =>
            /\ writes[k].result # save_data(TRUE)
            /\ ~ReportsSuccess(ret.val)

====
